---- MODULE Spec2Model ----
(***************************************************************************)
(* Model of package testlicense (check.go): the license filename           *)
(* allowlist, the directory scan ReadLicenseDir / ReadLicense, the         *)
(* assertion assertLicense and its callers AssertLicenseDir,               *)
(* AssertLicense, TestPercent and Test.                                    *)
(*                                                                         *)
(* A string is a sequence of runes; a rune is written as a one-character   *)
(* string, and the four non-ASCII runes the case mappings treat specially  *)
(* by their code points: "U+0130" (capital I with dot above), "U+0131"     *)
(* (dotless i), "U+017F" (long s) and "U+212A" (Kelvin sign).              *)
(* A percentage (float64 in the source) is an integer number of            *)
(* hundredths of a percent: 9000 is 90.00%.                                *)
(***************************************************************************)
EXTENDS Integers, Sequences, FiniteSets, TLC

\* Longest directory listing drawn for a directory.
MaxEntries == 2

\* Longest list of matches the scorer returns for a document.
MaxMatch == 2

(***************************************************************************)
(* Filenames: the allowlist, check.go lines 47-88, in source order.        *)
(***************************************************************************)
Filenames ==
  <<
    <<"C","O","P","Y","I","N","G">>,  \* COPYING
    <<"C","O","P","Y","I","N","G",".","m","d">>,  \* COPYING.md
    <<"C","O","P","Y","I","N","G",".","m","a","r","k","d","o","w","n">>,  \* COPYING.markdown
    <<"C","O","P","Y","I","N","G",".","t","x","t">>,  \* COPYING.txt
    <<"L","I","C","E","N","C","E">>,  \* LICENCE
    <<"L","I","C","E","N","C","E",".","m","d">>,  \* LICENCE.md
    <<"L","I","C","E","N","C","E",".","m","a","r","k","d","o","w","n">>,  \* LICENCE.markdown
    <<"L","I","C","E","N","C","E",".","t","x","t">>,  \* LICENCE.txt
    <<"L","I","C","E","N","S","E">>,  \* LICENSE
    <<"L","I","C","E","N","S","E",".","m","d">>,  \* LICENSE.md
    <<"L","I","C","E","N","S","E",".","m","a","r","k","d","o","w","n">>,  \* LICENSE.markdown
    <<"L","I","C","E","N","S","E",".","t","x","t">>,  \* LICENSE.txt
    <<"L","I","C","E","N","S","E","-","2",".","0",".","t","x","t">>,  \* LICENSE-2.0.txt
    <<"L","I","C","E","N","C","E","-","2",".","0",".","t","x","t">>,  \* LICENCE-2.0.txt
    <<"L","I","C","E","N","S","E","-","A","P","A","C","H","E">>,  \* LICENSE-APACHE
    <<"L","I","C","E","N","C","E","-","A","P","A","C","H","E">>,  \* LICENCE-APACHE
    <<"L","I","C","E","N","S","E","-","A","P","A","C","H","E","-","2",".","0",".","t","x","t">>,  \* LICENSE-APACHE-2.0.txt
    <<"L","I","C","E","N","C","E","-","A","P","A","C","H","E","-","2",".","0",".","t","x","t">>,  \* LICENCE-APACHE-2.0.txt
    <<"L","I","C","E","N","S","E","-","M","I","T">>,  \* LICENSE-MIT
    <<"L","I","C","E","N","C","E","-","M","I","T">>,  \* LICENCE-MIT
    <<"L","I","C","E","N","S","E",".","M","I","T">>,  \* LICENSE.MIT
    <<"L","I","C","E","N","C","E",".","M","I","T">>,  \* LICENCE.MIT
    <<"L","I","C","E","N","S","E",".","c","o","d","e">>,  \* LICENSE.code
    <<"L","I","C","E","N","C","E",".","c","o","d","e">>,  \* LICENCE.code
    <<"L","I","C","E","N","S","E",".","d","o","c","s">>,  \* LICENSE.docs
    <<"L","I","C","E","N","C","E",".","d","o","c","s">>,  \* LICENCE.docs
    <<"L","I","C","E","N","S","E",".","r","s","t">>,  \* LICENSE.rst
    <<"L","I","C","E","N","C","E",".","r","s","t">>,  \* LICENCE.rst
    <<"M","I","T","-","L","I","C","E","N","S","E">>,  \* MIT-LICENSE
    <<"M","I","T","-","L","I","C","E","N","C","E">>,  \* MIT-LICENCE
    <<"M","I","T","-","L","I","C","E","N","S","E",".","m","d">>,  \* MIT-LICENSE.md
    <<"M","I","T","-","L","I","C","E","N","C","E",".","m","d">>,  \* MIT-LICENCE.md
    <<"M","I","T","-","L","I","C","E","N","S","E",".","m","a","r","k","d","o","w","n">>,  \* MIT-LICENSE.markdown
    <<"M","I","T","-","L","I","C","E","N","C","E",".","m","a","r","k","d","o","w","n">>,  \* MIT-LICENCE.markdown
    <<"M","I","T","-","L","I","C","E","N","S","E",".","t","x","t">>,  \* MIT-LICENSE.txt
    <<"M","I","T","-","L","I","C","E","N","C","E",".","t","x","t">>,  \* MIT-LICENCE.txt
    <<"M","I","T","_","L","I","C","E","N","S","E">>,  \* MIT_LICENSE
    <<"M","I","T","_","L","I","C","E","N","C","E">>,  \* MIT_LICENCE
    <<"U","N","L","I","C","E","N","S","E">>,  \* UNLICENSE
    <<"U","N","L","I","C","E","N","C","E">>  \* UNLICENCE
  >>

(***************************************************************************)
(* strings.ToLower, as IsLicenseFilename and init use it: Go maps a string *)
(* rune by rune with unicode.ToLower.  ASCII letters map to their          *)
(* counterparts; U+0130 lowers to "i" and U+212A to "k"; U+0131 and        *)
(* U+017F are lower case already.  strings.ToUpper is the mirror image:    *)
(* U+0131 uppers to "I", U+017F to "S"; U+0130 and U+212A are upper case   *)
(* already.                                                                *)
(***************************************************************************)
UpperAZ ==
  <<"A","B","C","D","E","F","G","H","I","J","K","L","M",
    "N","O","P","Q","R","S","T","U","V","W","X","Y","Z">>

LowerAZ ==
  <<"a","b","c","d","e","f","g","h","i","j","k","l","m",
    "n","o","p","q","r","s","t","u","v","w","x","y","z">>

Specials == {"U+0130", "U+0131", "U+017F", "U+212A"}

\* The runes that occur in the names of this model.
Runes ==
  {UpperAZ[i] : i \in 1..26} \cup {LowerAZ[i] : i \in 1..26}
    \cup {"0", "2", ".", "-", "_"} \cup Specials

IndexIn(seq, c) == CHOOSE i \in 1..Len(seq) : seq[i] = c

IsIn(seq, c) == \E i \in 1..Len(seq) : seq[i] = c

\* unicode.ToLower and unicode.ToUpper, as tables over Runes.
LowerTable ==
  [c \in Runes |->
     IF IsIn(UpperAZ, c) THEN LowerAZ[IndexIn(UpperAZ, c)]
     ELSE IF c = "U+0130" THEN "i"
     ELSE IF c = "U+212A" THEN "k"
     ELSE c]

UpperTable ==
  [c \in Runes |->
     IF IsIn(LowerAZ, c) THEN UpperAZ[IndexIn(LowerAZ, c)]
     ELSE IF c = "U+0131" THEN "I"
     ELSE IF c = "U+017F" THEN "S"
     ELSE c]

RuneToLower(c) == LowerTable[c]

RuneToUpper(c) == UpperTable[c]

ToLower(s) == [i \in 1..Len(s) |-> RuneToLower(s[i])]

ToUpper(s) == [i \in 1..Len(s) |-> RuneToUpper(s[i])]

(***************************************************************************)
(* The state.                                                              *)
(*   filenames  the lookup set built by init()                             *)
(*   fs         each directory's entries, in listing order                 *)
(*   mode       whether a directory can be opened and listed               *)
(*   consumed   the caller's os.File directory handles whose read          *)
(*              position is at the end of the directory                    *)
(*   last       the latest call: its arguments, results and effects        *)
(*   prev       the call before it, when it was the same call (same        *)
(*              operation, same arguments); NoCall otherwise               *)
(***************************************************************************)
VARIABLES filenames, fs, mode, consumed, last, prev

vars == <<filenames, fs, mode, consumed, last, prev>>

\* init(): every allowlist entry, lowercased, goes into the lookup set.
init == {ToLower(Filenames[i]) : i \in 1..Len(Filenames)}

\* A lookup that compares the name as given: mixed-case names are missed.
IsLicenseFilenameExact(s) == s \in filenames

\* A lookup that accepts any name beginning with a lowercased entry.
IsLicenseFilenamePrefix(s) ==
  \E f \in filenames :
    Len(f) <= Len(s) /\ SubSeq(ToLower(s), 1, Len(f)) = f

IsLicenseFilename(s) == ToLower(s) \in filenames

(***************************************************************************)
(* Errors.  kind tells the error values apart (nil, os.ErrNotExist, the    *)
(* errors made by errors.New and fmt.Errorf, the I/O errors of the os      *)
(* package); format is the message or format literal of the source; msg    *)
(* is the formatted message.                                               *)
(***************************************************************************)
Nil == [kind |-> "nil", format |-> "", msg |-> ""]

ErrNotExist ==
  [kind |-> "os.ErrNotExist", format |-> "file does not exist",
   msg |-> "file does not exist"]

ErrorsNew(text) == [kind |-> "errors.New", format |-> text, msg |-> text]

Errorf(format, text) == [kind |-> "fmt.Errorf", format |-> format, msg |-> text]

\* The I/O errors of os.Open("."), Readdirnames and ioutil.ReadFile.
ErrOpen == [kind |-> "os.PathError", format |-> "open", msg |-> "open .: permission denied"]

ErrList == [kind |-> "os.PathError", format |-> "readdirent", msg |-> "readdirent: permission denied"]

ErrNoEnt == [kind |-> "os.PathError", format |-> "open", msg |-> "open: no such file or directory"]

ErrAccess == [kind |-> "os.PathError", format |-> "open", msg |-> "open: permission denied"]

(***************************************************************************)
(* fmt verbs on a percentage p given in hundredths.  %f prints six         *)
(* decimals; %3.1f rounds to one decimal (the pool of percentages holds no *)
(* value halfway between two tenths, where float rounding would matter).   *)
(***************************************************************************)
Pad2(n) == IF n < 10 THEN "0" \o ToString(n) ELSE ToString(n)

FmtF(p) == ToString(p \div 100) \o "." \o Pad2(p % 100) \o "0000"

Fmt31(p) ==
  LET t == (p + 5) \div 10
  IN  ToString(t \div 10) \o "." \o ToString(t % 10)

\* fmt.Sprintf("%s(%3.1f%%)", m.Name, m.Percent)
SprintfMatch(m) == m.Name \o "(" \o Fmt31(m.Percent) \o "%)"

\* strings.Join(list, sep)
RECURSIVE Join(_, _)
Join(list, sep) ==
  IF Len(list) = 0 THEN ""
  ELSE IF Len(list) = 1 THEN list[1]
  ELSE list[1] \o sep \o Join(Tail(list), sep)

(***************************************************************************)
(* Documents and the scorer.  licensecheck.Cover is a deterministic        *)
(* function of the bytes, outside this package: a document is modelled by  *)
(* an id (which bytes it is) and by what Cover returns for it.  A match    *)
(* carries its license Name, its Type and its Percent.                     *)
(***************************************************************************)
NilBytes == [id |-> 0, ok |-> FALSE, Percent |-> 0, Match |-> <<>>]

WantTypes == {"MIT", "BSD"}

Thresholds == {9000, 9500}

\* licensecheck.Cover(b, licensecheck.Options{})
Cover(b) == [cov |-> [Percent |-> b.Percent, Match |-> b.Match], ok |-> b.ok]

\* The loop of assertLicense adding each found match at the front of the list.
RECURSIVE MatchLoopReversed(_, _, _, _)
MatchLoopReversed(match, i, want, list) ==
  IF i > Len(match)
  THEN Errorf("license does not match. found: %s",
              "license does not match. found: " \o Join(list, ","))
  ELSE IF match[i].Type = want THEN Nil
  ELSE MatchLoopReversed(match, i + 1, want, <<SprintfMatch(match[i])>> \o list)

\* The loop of assertLicense: for _, m := range cov.Match.
RECURSIVE MatchLoop(_, _, _, _)
MatchLoop(match, i, want, list) ==
  IF i > Len(match)
  THEN Errorf("license does not match. found: %s",
              "license does not match. found: " \o Join(list, ","))
  ELSE IF match[i].Type = want THEN Nil
  ELSE MatchLoop(match, i + 1, want, Append(list, SprintfMatch(match[i])))

\* assertLicense with the threshold compared by <= : coverage equal to the
\* threshold is refused.
assertLicenseLE(b, want, percent) ==
  LET c == Cover(b)
  IN  IF ~c.ok THEN ErrorsNew("license not found")
      ELSE IF c.cov.Percent <= percent
      THEN Errorf("percentage %f is less than wanted %f",
                  "percentage " \o FmtF(c.cov.Percent)
                    \o " is less than wanted " \o FmtF(percent))
      ELSE MatchLoop(c.cov.Match, 1, want, <<>>)

assertLicense(b, want, percent) ==
  LET c == Cover(b)
  IN  IF ~c.ok THEN ErrorsNew("license not found")
      ELSE IF c.cov.Percent < percent
      THEN Errorf("percentage %f is less than wanted %f",
                  "percentage " \o FmtF(c.cov.Percent)
                    \o " is less than wanted " \o FmtF(percent))
      ELSE MatchLoop(c.cov.Match, 1, want, <<>>)

(***************************************************************************)
(* Directories.  The process's working directory is "here"; "other" is a   *)
(* second directory.  An entry is a name, the bytes of the file and        *)
(* whether the file can be read.                                           *)
(***************************************************************************)
Cwd == "here"

Dirs == {"here", "other"}

(***************************************************************************)
(* Directory sources (DirnamesReader).  "hHere" and "hOther" are os.File   *)
(* handles the caller opened on the two directories, "dot" is the handle   *)
(* ReadLicense opens on "."; "hFake" is an in-memory source that returns   *)
(* the names of "other" on every call.                                     *)
(***************************************************************************)
Sources == {"hHere", "hOther", "hFake"}

HandleDir(dir) == IF dir \in {"hHere", "dot"} THEN "here" ELSE "other"

Stateful(dir) == dir \in {"hHere", "hOther", "dot"}

EntryNames(entries) == [i \in 1..Len(entries) |-> entries[i].name]

\* dir.Readdirnames(0): all the names not yet read.  An os.File keeps its
\* read position: once at the end it returns no names and no error.
Readdirnames(dir, cons) ==
  IF mode[HandleDir(dir)] = "nolist"
  THEN [names |-> <<>>, err |-> ErrList, cons |-> cons]
  ELSE IF Stateful(dir) /\ dir \in cons
  THEN [names |-> <<>>, err |-> Nil, cons |-> cons]
  ELSE [names |-> EntryNames(fs[HandleDir(dir)]), err |-> Nil,
        cons |-> IF Stateful(dir) THEN cons \cup {dir} ELSE cons]

\* ioutil.ReadFile(filename): a relative name is resolved against the
\* process's working directory.
ReadFile(filename) ==
  LET es  == fs[Cwd]
      hit == {i \in 1..Len(es) : es[i].name = filename}
  IN  IF hit = {} THEN [data |-> NilBytes, err |-> ErrNoEnt]
      ELSE LET e == es[CHOOSE i \in hit : TRUE]
           IN  IF e.readable THEN [data |-> e.data, err |-> Nil]
               ELSE [data |-> NilBytes, err |-> ErrAccess]

\* A scan that goes on to the next recognized name when a read fails.
RECURSIVE ScanNamesRetry(_, _, _)
ScanNamesRetry(names, i, reads) ==
  IF i > Len(names)
  THEN [filename |-> <<>>, contents |-> NilBytes, err |-> ErrNotExist, reads |-> reads]
  ELSE IF IsLicenseFilename(names[i])
  THEN LET f == ReadFile(names[i])
       IN  IF f.err # Nil /\ \E j \in (i + 1)..Len(names) : IsLicenseFilename(names[j])
           THEN ScanNamesRetry(names, i + 1, Append(reads, names[i]))
           ELSE [filename |-> names[i], contents |-> f.data, err |-> f.err,
                 reads |-> Append(reads, names[i])]
  ELSE ScanNamesRetry(names, i + 1, reads)

\* The loop of ReadLicenseDir: for _, filename = range names.  reads lists
\* the names handed to ioutil.ReadFile.
RECURSIVE ScanNames(_, _, _)
ScanNames(names, i, reads) ==
  IF i > Len(names)
  THEN [filename |-> <<>>, contents |-> NilBytes, err |-> ErrNotExist, reads |-> reads]
  ELSE IF IsLicenseFilename(names[i])
  THEN LET f == ReadFile(names[i])
       IN  [filename |-> names[i], contents |-> f.data, err |-> f.err,
            reads |-> Append(reads, names[i])]
  ELSE ScanNames(names, i + 1, reads)

\* ReadLicenseDir reporting "license not found" when no name is recognized.
ReadLicenseDirNotFoundMsg(dir, cons) ==
  LET l == Readdirnames(dir, cons)
      r == ScanNames(l.names, 1, <<>>)
  IN  IF l.err # Nil
      THEN [filename |-> <<>>, contents |-> NilBytes, err |-> l.err,
            reads |-> <<>>, names |-> l.names, cons |-> l.cons]
      ELSE [filename |-> r.filename, contents |-> r.contents,
            err |-> IF r.err = ErrNotExist THEN ErrorsNew("license not found") ELSE r.err,
            reads |-> r.reads, names |-> l.names, cons |-> l.cons]

\* ReadLicenseDir(dir): cons is the set of consumed handles before the
\* call, the result's cons the set after it.
ReadLicenseDir(dir, cons) ==
  LET l == Readdirnames(dir, cons)
      r == ScanNames(l.names, 1, <<>>)
  IN  IF l.err # Nil
      THEN [filename |-> <<>>, contents |-> NilBytes, err |-> l.err,
            reads |-> <<>>, names |-> l.names, cons |-> l.cons]
      ELSE [filename |-> r.filename, contents |-> r.contents, err |-> r.err,
            reads |-> r.reads, names |-> l.names, cons |-> l.cons]

\* ReadLicense keeping one handle on "." open across calls.
ReadLicenseSharedHandle(cons) ==
  IF mode[Cwd] = "noopen"
  THEN [filename |-> <<>>, contents |-> NilBytes, err |-> ErrOpen,
        reads |-> <<>>, names |-> <<>>, cons |-> cons]
  ELSE ReadLicenseDir("hHere", cons)

\* ReadLicense(): os.Open("."), defer f.Close(), ReadLicenseDir(f).  The
\* handle is fresh on every call and gone after it.
ReadLicense(cons) ==
  IF mode[Cwd] = "noopen"
  THEN [filename |-> <<>>, contents |-> NilBytes, err |-> ErrOpen,
        reads |-> <<>>, names |-> <<>>, cons |-> cons]
  ELSE [ReadLicenseDir("dot", cons \ {"dot"}) EXCEPT !.cons = cons]

\* AssertLicenseDir going on to the scorer although the read failed.
AssertLicenseDirSwallow(dir, want, percent, cons) ==
  LET r == ReadLicenseDir(dir, cons)
  IN  [err |-> assertLicense(r.contents, want, percent), reads |-> r.reads,
       scored |-> <<r.contents>>, names |-> r.names, cons |-> r.cons]

\* AssertLicenseDir(dir, want, percent).  scored lists the documents handed
\* to licensecheck.Cover.
AssertLicenseDir(dir, want, percent, cons) ==
  LET r == ReadLicenseDir(dir, cons)
  IN  IF r.err # Nil
      THEN [err |-> r.err, reads |-> r.reads, scored |-> <<>>, names |-> r.names,
            cons |-> r.cons]
      ELSE [err |-> assertLicense(r.contents, want, percent), reads |-> r.reads,
            scored |-> <<r.contents>>, names |-> r.names, cons |-> r.cons]

\* AssertLicense(want, percent)
AssertLicense(want, percent, cons) ==
  LET r == ReadLicense(cons)
  IN  IF r.err # Nil
      THEN [err |-> r.err, reads |-> r.reads, scored |-> <<>>, names |-> r.names,
            cons |-> r.cons]
      ELSE [err |-> assertLicense(r.contents, want, percent), reads |-> r.reads,
            scored |-> <<r.contents>>, names |-> r.names, cons |-> r.cons]

\* TestPercent(t, want, percent): t.Fatal(err) when AssertLicense fails.
TestPercent(want, percent, cons) ==
  LET r == AssertLicense(want, percent, cons)
  IN  [failed |-> r.err # Nil, fatal |-> r.err, reads |-> r.reads,
       scored |-> r.scored, names |-> r.names, cons |-> r.cons]

\* The threshold Test passes on: 90.
DefaultPercent == 9000

\* Test passing a threshold of 0 on.
TestNoThreshold(want, cons) == TestPercent(want, 0, cons)

\* Test(t, want)
Test(want, cons) == TestPercent(want, DefaultPercent, cons)

(***************************************************************************)
(* Calls.  Each action is one call of an exported function by a client;    *)
(* last records the call, prev the call before it when it is repeated.     *)
(***************************************************************************)
NoCall ==
  [op |-> "none", dir |-> "", want |-> "", percent |-> 0, s |-> <<>>,
   ret |-> FALSE, filename |-> <<>>, contents |-> NilBytes, err |-> Nil,
   failed |-> FALSE, fatal |-> Nil, reads |-> <<>>, scored |-> <<>>,
   names |-> <<>>]

SameCall(a, b) ==
  /\ a.op = b.op
  /\ a.dir = b.dir
  /\ a.want = b.want
  /\ a.percent = b.percent
  /\ a.s = b.s

Record(c) ==
  /\ last' = c
  /\ prev' = IF SameCall(last, c) THEN last ELSE NoCall

\* The client asks about the name it drew.
CallIsLicenseFilename(s) ==
  /\ last.op = "input"
  /\ Record([NoCall EXCEPT !.op = "IsLicenseFilename", !.s = s,
                           !.ret = IsLicenseFilename(s)])
  /\ UNCHANGED <<filenames, fs, mode, consumed>>

CallReadLicenseDir(dir) ==
  \E r \in {ReadLicenseDir(dir, consumed)} :
    /\ Record([NoCall EXCEPT !.op = "ReadLicenseDir", !.dir = dir,
                             !.filename = r.filename, !.contents = r.contents,
                             !.err = r.err, !.reads = r.reads,
                             !.names = r.names])
    /\ consumed' = r.cons
    /\ UNCHANGED <<filenames, fs, mode>>

CallReadLicense ==
  \E r \in {ReadLicense(consumed)} :
    /\ Record([NoCall EXCEPT !.op = "ReadLicense", !.dir = "dot",
                             !.filename = r.filename, !.contents = r.contents,
                             !.err = r.err, !.reads = r.reads,
                             !.names = r.names])
    /\ consumed' = r.cons
    /\ UNCHANGED <<filenames, fs, mode>>

CallAssertLicenseDir(dir, want, percent) ==
  \E r \in {AssertLicenseDir(dir, want, percent, consumed)} :
    /\ Record([NoCall EXCEPT !.op = "AssertLicenseDir", !.dir = dir,
                             !.want = want, !.percent = percent,
                             !.err = r.err, !.reads = r.reads,
                             !.scored = r.scored,
                             !.names = r.names])
    /\ consumed' = r.cons
    /\ UNCHANGED <<filenames, fs, mode>>

CallAssertLicense(want, percent) ==
  \E r \in {AssertLicense(want, percent, consumed)} :
    /\ Record([NoCall EXCEPT !.op = "AssertLicense", !.dir = "dot",
                             !.want = want, !.percent = percent,
                             !.err = r.err, !.reads = r.reads,
                             !.scored = r.scored,
                             !.names = r.names])
    /\ consumed' = r.cons
    /\ UNCHANGED <<filenames, fs, mode>>

CallTestPercent(want, percent) ==
  \E r \in {TestPercent(want, percent, consumed)} :
    /\ Record([NoCall EXCEPT !.op = "TestPercent", !.dir = "dot",
                             !.want = want, !.percent = percent,
                             !.failed = r.failed, !.fatal = r.fatal,
                             !.reads = r.reads, !.scored = r.scored,
                             !.names = r.names])
    /\ consumed' = r.cons
    /\ UNCHANGED <<filenames, fs, mode>>

CallTest(want) ==
  \E r \in {Test(want, consumed)} :
    /\ Record([NoCall EXCEPT !.op = "Test", !.dir = "dot", !.want = want,
                             !.failed = r.failed, !.fatal = r.fatal,
                             !.reads = r.reads, !.scored = r.scored,
                             !.names = r.names])
    /\ consumed' = r.cons
    /\ UNCHANGED <<filenames, fs, mode>>

(***************************************************************************)
(* Inputs.                                                                 *)
(***************************************************************************)
NameReadme == <<"R","E","A","D","M","E",".","m","d">>

NameLicense == <<"L","I","C","E","N","S","E">>

NameCopyingTxt == <<"c","o","p","y","i","n","g",".","t","x","t">>

NameMainGo == <<"m","a","i","n",".","g","o">>

MatchMIT == [Name |-> "MIT", Type |-> "MIT", Percent |-> 9524]

MatchApache == [Name |-> "Apache-2.0", Type |-> "Apache", Percent |-> 9996]

MatchBSD2 == [Name |-> "BSD-2-Clause", Type |-> "BSD", Percent |-> 1000]

MatchBSD3 == [Name |-> "BSD-3-Clause", Type |-> "BSD", Percent |-> 4]

MatchPool == {MatchMIT, MatchBSD2, MatchBSD3}

DocMIT == [id |-> 1, ok |-> TRUE, Percent |-> 9500, Match |-> <<MatchMIT>>]

DocApache == [id |-> 2, ok |-> TRUE, Percent |-> 9500, Match |-> <<MatchApache>>]

DocLow == [id |-> 3, ok |-> TRUE, Percent |-> 5000, Match |-> <<MatchMIT>>]

DocText == [id |-> 4, ok |-> FALSE, Percent |-> 0, Match |-> <<>>]

File(name, data, readable) == [name |-> name, data |-> data, readable |-> readable]

HereEntries ==
  { File(NameReadme, DocText, TRUE),
    File(NameLicense, DocMIT, TRUE),
    File(NameLicense, DocText, TRUE),
    File(NameCopyingTxt, DocLow, TRUE),
    File(NameCopyingTxt, DocLow, FALSE) }

OtherEntries ==
  { File(NameReadme, DocText, TRUE),
    File(NameLicense, DocApache, TRUE) }

\* The listings of at most MaxEntries entries with distinct names.
Listings(E) ==
  { l \in UNION {[1..n -> E] : n \in 0..MaxEntries} :
      \A i, j \in 1..Len(l) : i # j => l[i].name # l[j].name }

\* The match lists of at most MaxMatch matches.
MatchLists == UNION {[1..n -> MatchPool] : n \in 0..MaxMatch}

\* When Cover reports no coverage it returns the zero Coverage.
Documents ==
  {DocText} \cup
  { [id |-> 1, ok |-> TRUE, Percent |-> p, Match |-> m] :
      p \in {5000, 9000, 9500}, m \in MatchLists }

\* Names to ask IsLicenseFilename about: the allowlist entries in other
\* cases, with one rune replaced by a rune of the same case orbit, and with
\* runes added or removed at either end.
Orbit(c) ==
  {c, RuneToLower(c), RuneToUpper(c)} \cup
  { x \in Specials : RuneToLower(x) = RuneToLower(c) \/ RuneToUpper(x) = RuneToUpper(c) }

Subst(s) == UNION { {[s EXCEPT ![i] = c] : c \in Orbit(s[i])} : i \in 1..Len(s) }

Variants(s) == {s, ToLower(s), ToUpper(s)} \cup Subst(s) \cup Subst(ToLower(s))

Affixed(s) ==
  { Append(s, "x"), <<"x">> \o s, SubSeq(s, 1, Len(s) - 1), SubSeq(s, 2, Len(s)),
    s \o <<".","t","x","t">>, SubSeq(s, 1, Len(s) - 1) \o <<"U+017F">> }

TestNames ==
  UNION { Variants(Filenames[i]) \cup Affixed(Filenames[i]) : i \in 1..Len(Filenames) }
    \cup {NameReadme, NameMainGo, <<>>}

(***************************************************************************)
(* Specifications.                                                         *)
(***************************************************************************)
InitCommon ==
  /\ filenames = init
  /\ consumed = {}
  /\ last = NoCall
  /\ prev = NoCall

\* Every pair of listings, all directories accessible.
InitListings ==
  /\ InitCommon
  /\ fs \in [here : Listings(HereEntries), other : Listings(OtherEntries)]
  /\ mode = [here |-> "ok", other |-> "ok"]

\* One pair of listings, with directories that cannot be opened or listed.
InitModes ==
  /\ InitCommon
  /\ fs = [here |-> <<File(NameLicense, DocMIT, TRUE)>>,
           other |-> <<File(NameLicense, DocApache, TRUE)>>]
  /\ mode \in [here : {"ok", "noopen", "nolist"}, other : {"ok", "nolist"}]

\* One listing, with every document as the license file.
InitDocuments ==
  /\ InitCommon
  /\ \E b \in Documents :
       fs = [here |-> <<File(NameLicense, b, TRUE)>>,
             other |-> <<File(NameLicense, DocApache, TRUE)>>]
  /\ mode = [here |-> "ok", other |-> "ok"]

\* One name to ask IsLicenseFilename about.
InitName ==
  /\ filenames = init
  /\ consumed = {}
  /\ \E s \in TestNames : last = [NoCall EXCEPT !.op = "input", !.s = s]
  /\ prev = NoCall
  /\ fs = [here |-> <<>>, other |-> <<>>]
  /\ mode = [here |-> "ok", other |-> "ok"]

Init == InitListings \/ InitModes

NextDir ==
  \/ \E dir \in Sources : CallReadLicenseDir(dir)
  \/ CallReadLicense
  \/ \E dir \in Sources, want \in WantTypes, percent \in Thresholds :
       CallAssertLicenseDir(dir, want, percent)
  \/ \E want \in WantTypes, percent \in Thresholds : CallAssertLicense(want, percent)
  \/ \E want \in WantTypes, percent \in Thresholds : CallTestPercent(want, percent)
  \/ \E want \in WantTypes : CallTest(want)

NextName == CallIsLicenseFilename(last.s)

Next == NextDir \/ NextName

\* The directory scan and the assertions over every pair of listings.
Spec == Init /\ [][NextDir]_vars

\* The assertions over every document.
SpecCover == InitDocuments /\ [][NextDir]_vars

\* The filename recognizer over the test names.
SpecName == InitName /\ [][NextName]_vars

(***************************************************************************)
(* Properties.                                                             *)
(***************************************************************************)
IsRead(c) == c.op \in {"ReadLicenseDir", "ReadLicense"}

IsAssert(c) == c.op \in {"AssertLicenseDir", "AssertLicense"}

\* os.Open(".") failed: the directory was never listed.
OpenFailed(c) == c.dir = "dot" /\ mode[Cwd] = "noopen"

\* The listing call was made and failed.
ListFailed(c) == ~OpenFailed(c) /\ mode[HandleDir(c.dir)] = "nolist"

Listed(c) == ~OpenFailed(c) /\ ~ListFailed(c)

Recognized(names) == {i \in 1..Len(names) : IsLicenseFilename(names[i])}

First(S) == CHOOSE i \in S : \A j \in S : i <= j

\* The entry called name in directory d.
EntryOf(d, name) ==
  LET es == fs[d]
  IN  es[CHOOSE i \in 1..Len(es) : es[i].name = name]

BelowFormat == "percentage %f is less than wanted %f"

MismatchFormat == "license does not match. found: %s"

\* C1: once a candidate file has been read, the assertion decides in this
\* order: no coverage gives "license not found"; else coverage strictly
\* below the threshold gives the below-threshold error, whatever types
\* matched; else the result is nil iff some match has the wanted type
\* (coverage equal to the threshold is accepted), and a type-mismatch error
\* otherwise.
C1_DecisionOrder ==
  (IsAssert(last) /\ last.scored # <<>>) =>
    LET b == last.scored[1]
    IN  IF ~b.ok THEN last.err = ErrorsNew("license not found")
        ELSE IF b.Percent < last.percent
        THEN /\ last.err.kind = "fmt.Errorf"
             /\ last.err.format = BelowFormat
             /\ last.err.msg = "percentage " \o FmtF(b.Percent)
                                 \o " is less than wanted " \o FmtF(last.percent)
        ELSE /\ (last.err = Nil) <=> (\E i \in 1..Len(b.Match) : b.Match[i].Type = last.want)
             /\ last.err # Nil =>
                  (last.err.kind = "fmt.Errorf" /\ last.err.format = MismatchFormat)

\* C1 witness: a below-threshold error although the wanted type matched.
C1_Witness ==
  /\ IsAssert(last)
  /\ last.scored # <<>>
  /\ last.err.format = BelowFormat
  /\ \E i \in 1..Len(last.scored[1].Match) : last.scored[1].Match[i].Type = last.want

\* C2: when the listing call succeeds, ReadLicenseDir selects the first
\* name, in listing order, that IsLicenseFilename recognizes and returns
\* it; it reads that entry only, also when the read fails; when no name is
\* recognized it returns an empty filename, no contents and os.ErrNotExist.
C2_FirstRecognized ==
  (IsRead(last) /\ Listed(last)) =>
    LET rec == Recognized(last.names)
    IN  IF rec = {}
        THEN /\ last.filename = <<>>
             /\ last.contents = NilBytes
             /\ last.err = ErrNotExist
             /\ last.reads = <<>>
        ELSE /\ last.filename = last.names[First(rec)]
             /\ last.reads = <<last.names[First(rec)]>>

\* C2 witness: two recognized names were listed and reading the first failed.
C2_Witness ==
  /\ IsRead(last)
  /\ Listed(last)
  /\ Cardinality(Recognized(last.names)) = 2
  /\ last.err \in {ErrAccess, ErrNoEnt}
  /\ Len(last.reads) = 1

\* C3: the contents returned (and scored) for the selected filename are the
\* bytes of the file of that name in the directory whose entries were
\* listed, also when that directory is not the working directory.
C3_SameDirectory ==
  /\ (IsRead(last) /\ last.filename # <<>>) =>
       LET e == EntryOf(HandleDir(last.dir), last.filename)
       IN  e.readable => (last.err = Nil /\ last.contents = e.data)
  /\ (IsAssert(last) /\ Listed(last) /\ Recognized(last.names) # {}) =>
       LET e == EntryOf(HandleDir(last.dir), last.names[First(Recognized(last.names))])
       IN  e.readable => last.scored = <<e.data>>

\* C4: IsLicenseFilename(name) is true iff the lowercased name equals the
\* lowercased form of some allowlist entry, and the lookup set holds
\* exactly the lowercased entries at all times.
C4_ExactLowercaseMatch ==
  /\ filenames = {ToLower(Filenames[i]) : i \in 1..Len(Filenames)}
  /\ last.op = "IsLicenseFilename" =>
       (last.ret <=> \E i \in 1..Len(Filenames) : ToLower(last.s) = ToLower(Filenames[i]))

\* C4 witness: a name that extends an allowlist entry was refused.
C4_Witness ==
  /\ last.op = "IsLicenseFilename"
  /\ ~last.ret
  /\ \E i \in 1..Len(Filenames) :
       /\ Len(last.s) > Len(Filenames[i])
       /\ SubSeq(last.s, 1, Len(Filenames[i])) = Filenames[i]

\* C5 as stated: for all strings s, IsLicenseFilename gives the same answer
\* for s, lowercase(s) and uppercase(s).
C5_Original ==
  last.op = "IsLicenseFilename" =>
    /\ last.ret = IsLicenseFilename(ToLower(last.s))
    /\ last.ret = IsLicenseFilename(ToUpper(last.s))

\* Every rune of s has an upper case that lowers back to the rune's lower case.
CaseRoundTrips(s) ==
  \A i \in 1..Len(s) : RuneToLower(RuneToUpper(s[i])) = RuneToLower(s[i])

\* C5 amended: IsLicenseFilename gives the same answer for s and
\* lowercase(s), for all s; and the same answer for uppercase(s) when every
\* rune of s has an upper case that lowers back to the rune's lower case
\* (not so for U+0131 and U+017F).
C5_CaseInsensitive ==
  last.op = "IsLicenseFilename" =>
    /\ last.ret = IsLicenseFilename(ToLower(last.s))
    /\ CaseRoundTrips(last.s) => last.ret = IsLicenseFilename(ToUpper(last.s))

\* C5 witness: a name with U+0130, whose case mappings are not inverse of
\* each other, was recognized.
C5_Witness ==
  /\ last.op = "IsLicenseFilename"
  /\ last.ret
  /\ \E i \in 1..Len(last.s) : last.s[i] = "U+0130"
  /\ ToUpper(last.s) # ToUpper(ToLower(last.s))

\* C6 as stated: the assertions report the same "license not found" error
\* when no listed name is recognized and when the scorer reports no coverage.
C6_Original ==
  IsAssert(last) =>
    /\ (Listed(last) /\ Recognized(last.names) = {}) =>
         last.err = ErrorsNew("license not found")
    /\ (last.scored # <<>> /\ ~last.scored[1].ok) =>
         last.err = ErrorsNew("license not found")

\* C6 amended: the assertions report os.ErrNotExist ("file does not exist")
\* when no listed name is recognized, and the distinct error "license not
\* found" when a candidate was read but the scorer reports no coverage.
C6_TwoSignals ==
  IsAssert(last) =>
    /\ (Listed(last) /\ Recognized(last.names) = {}) =>
         (last.err = ErrNotExist /\ last.scored = <<>>)
    /\ (last.scored # <<>> /\ ~last.scored[1].ok) =>
         last.err = ErrorsNew("license not found")
    /\ ErrNotExist # ErrorsNew("license not found")

\* C6 witness: names were listed, none recognized.
C6_Witness ==
  /\ IsAssert(last)
  /\ Listed(last)
  /\ last.names # <<>>
  /\ Recognized(last.names) = {}
  /\ last.err = ErrNotExist

\* C7: I/O failures are propagated unchanged: a failed listing gives an
\* empty filename, no contents and the listing error; an unreadable
\* selected file gives its name and the read error; the assertions return
\* the same error and never call the scorer.
C7_IOErrorsPropagate ==
  /\ (IsRead(last) /\ ListFailed(last)) =>
       (last.filename = <<>> /\ last.contents = NilBytes /\ last.err = ErrList)
  /\ (IsRead(last) /\ OpenFailed(last)) =>
       (last.filename = <<>> /\ last.contents = NilBytes /\ last.err = ErrOpen)
  /\ (IsAssert(last) /\ OpenFailed(last)) =>
       (last.err = ErrOpen /\ last.scored = <<>>)
  /\ (IsRead(last) /\ last.reads # <<>> /\ ReadFile(last.reads[1]).err # Nil) =>
       (last.filename = last.reads[1] /\ last.err = ReadFile(last.reads[1]).err)
  /\ (IsAssert(last) /\ ListFailed(last)) =>
       (last.err = ErrList /\ last.scored = <<>>)
  /\ (IsAssert(last) /\ last.reads # <<>> /\ ReadFile(last.reads[1]).err # Nil) =>
       (last.err = ReadFile(last.reads[1]).err /\ last.scored = <<>>)

\* C7 witness: an assertion returned the read error of the selected file.
C7_Witness ==
  /\ last.op = "AssertLicenseDir"
  /\ last.reads # <<>>
  /\ last.err = ErrAccess
  /\ last.scored = <<>>

\* C8: TestPercent(t, want, p) aborts the test with the error iff
\* AssertLicense(want, p) returns an error; Test(t, want) behaves as
\* TestPercent(t, want, 90).
C8_TestWrappers ==
  /\ last.op = "TestPercent" =>
       LET a == AssertLicense(last.want, last.percent, consumed)
       IN  (last.failed <=> a.err # Nil) /\ last.fatal = a.err
  /\ last.op = "Test" =>
       LET a == AssertLicense(last.want, 9000, consumed)
       IN  (last.failed <=> a.err # Nil) /\ last.fatal = a.err

\* C8 witness: Test aborted on coverage below 90.
C8_Witness ==
  /\ last.op = "Test"
  /\ last.failed
  /\ last.fatal.format = BelowFormat

\* C9 as stated: the same assertion called twice in a row yields identical
\* outcomes, also on a handle whose listing advances a read position.
C9_Original == IsAssert(prev) => prev.err = last.err

\* C9 amended: AssertLicense called twice in a row, or AssertLicenseDir
\* called twice with the same source whose listing returns the same names
\* on every call, yields identical outcomes.
C9_Idempotent ==
  (prev.op = "AssertLicense" \/ (prev.op = "AssertLicenseDir" /\ ~Stateful(prev.dir))) =>
    (prev.err = last.err /\ prev.scored = last.scored)

\* C9 witness: AssertLicense was repeated and succeeded.
C9_Witness ==
  /\ prev.op = "AssertLicense"
  /\ last.op = "AssertLicense"
  /\ last.err = Nil

\* C10 as stated: the type-mismatch error lists every match once, as its
\* type with its percentage, comma-joined, in the scorer's order.
C10_Original ==
  (IsAssert(last) /\ last.err.format = MismatchFormat) =>
    LET m == last.scored[1].Match
    IN  last.err.msg =
          "license does not match. found: "
            \o Join([i \in 1..Len(m) |-> m[i].Type \o "(" \o Fmt31(m[i].Percent) \o "%)"], ",")

\* C10 amended: the type-mismatch error lists every match once, as its
\* license name (Match.Name) with its percentage to one decimal,
\* comma-joined, in the scorer's order.
C10_ListsNames ==
  (IsAssert(last) /\ last.err.format = MismatchFormat) =>
    LET m == last.scored[1].Match
    IN  last.err.msg =
          "license does not match. found: "
            \o Join([i \in 1..Len(m) |-> m[i].Name \o "(" \o Fmt31(m[i].Percent) \o "%)"], ",")

\* C10 witness: a mismatch error over two matches of different names.
C10_Witness ==
  /\ IsAssert(last)
  /\ last.err.format = MismatchFormat
  /\ Len(last.scored[1].Match) = 2
  /\ last.scored[1].Match[1].Name # last.scored[1].Match[2].Name
====
